---------------------------- MODULE Spec2Model ----------------------------
(***************************************************************************)
(* Model of the CritiqueWire ingestion pipeline:                           *)
(*   app/services/rss_collection_service.py   (collection, dedup, sweep,   *)
(*                                             on-demand extraction)       *)
(*   app/services/scheduler_service.py        (interval / daily jobs,      *)
(*                                             start-up and manual runs)   *)
(*   app/services/content_extraction_service.py (strategy scoring)         *)
(*                                                                         *)
(* The service runs on one asyncio event loop.  A coroutine keeps the loop *)
(* until it awaits something that really suspends; the Supabase client is  *)
(* synchronous, so the store loop of _store_articles and the sweep never   *)
(* yield.  The variable cur names the coroutine that holds the loop in     *)
(* such a section ("none" when the loop is free).                          *)
(***************************************************************************)
EXTENDS Integers, Sequences, FiniteSets, TLC

(***************************************************************************)
(* Bounds of the model.                                                    *)
(***************************************************************************)
NumSources == 2      \* registered feeds (the program registers ten)
MaxFeedLen == 1      \* entries in one feed document
MaxDaily   == 1      \* firings of the daily cron job that are followed
MaxId      == 3      \* ids an extraction is requested for
MaxWords   == 460    \* word counts a reading time is computed for

(***************************************************************************)
(* Program constants.                                                      *)
(***************************************************************************)
RetentionDays == 30
NULL == -1           \* SQL NULL of a timestamp or integer column
PyNone == "<None>"   \* Python's None where a str is expected

\* str repeated n times
RECURSIVE Rep(_, _)
Rep(str, n) == IF n = 0 THEN "" ELSE str \o Rep(str, n - 1)


Sources == 1..NumSources
Runs == {"interval", "startup", "manual"}
\* the days the clock shows: the first day, the day after it, and the day on
\* which the first day lies one day past the retention horizon
Days == {0, 1, RetentionDays + 1}

(***************************************************************************)
(* Feed entries as feedparser hands them over.  eC differs from eA only in *)
(* letter case and surrounding blanks of the link: same content_hash,      *)
(* other url.  eB shares eA's link under another title: same url, other    *)
(* content_hash.  eBad has no title.                                       *)
(***************************************************************************)
\* media_thumbnail is the only image element the entries of the model carry
eA == [title |-> "Test", link |-> "http://x.com/a", media_thumbnail |-> << >>]
eB == [title |-> "News", link |-> "http://x.com/a", media_thumbnail |-> << >>]
eC == [title |-> "TEST", link |-> "http://x.com/a ",
       media_thumbnail |-> <<[url |-> "http://x.com/thumb.jpg"]>>]
eBad == [title |-> "", link |-> "http://x.com/d", media_thumbnail |-> << >>]
FeedEntries == {eA, eB, eC, eBad}

SeqsUpTo(S, n) == UNION {[1..k -> S] : k \in 0..n}
FeedSnapshots == SeqsUpTo(FeedEntries, MaxFeedLen)

\* what one fetch can bring back: a transport exception (timeout included),
\* a non-200 status, or a 200 response carrying a feed document
FetchOutcomes ==
    {[kind |-> "exception", entries |-> << >>],
     [kind |-> "status", entries |-> << >>]}
    \cup {[kind |-> "ok", entries |-> f] : f \in FeedSnapshots}

\* str.lower() and str.strip() on the strings of the model
Lower(s) == CASE s = "Test" -> "test"
              [] s = "TEST" -> "test"
              [] s = "News" -> "news"
              [] OTHER -> s
Strip(s) == IF s = "http://x.com/a " THEN "http://x.com/a" ELSE s

\* md5 is taken to be collision free: the digest is named by its pre-image
generate_content_hash(title, url) == Lower(Strip(title)) \o Strip(url)

VARIABLES
    now,          \* the clock, in days
    store,        \* rows of the articles table
    is_running,   \* SchedulerService.is_running
    scheduler,    \* SchedulerService.scheduler is not None
    daily_runs,   \* firings of the daily_cleanup job
    pc,           \* position of each collect_all_feeds invocation
    loc,          \* its local variables
    cur,          \* the coroutine holding the event loop
    ext,          \* the extract_article_content call in flight
    web,          \* the feed documents, where they are held fixed
    ran,          \* history: a collect_all_feeds run has returned since the
                  \* clock last moved
    call          \* the last request answered: its inputs and its response

vars == <<now, store, is_running, scheduler, daily_runs, pc, loc, cur, ext,
          web, ran, call>>

ManualArticle ==
    [id |-> 1, title |-> "Manual", url |-> "http://x.com/m",
     content |-> "Manual text", content_hash |-> "", image_url |-> PyNone,
     collected_at |-> NULL, analysis_status |-> "completed",
     word_count |-> NULL, reading_time |-> NULL,
     content_extracted_at |-> NULL]

\* locals of collect_all_feeds and _store_articles.  failed, store_failed,
\* sweeps and swept are history: the sources whose fetch failed, whether a
\* pass of the store loop ended in the except branch, how often the sweep
\* was invoked, and whether its delete went through.  cleaned is
\* len(result.data) of the delete.
IdleLoc ==
    [results |-> << >>, all_articles |-> << >>, idx |-> 1,
     total_articles_found |-> 0, new_articles_stored |-> 0, errors |-> << >>,
     stats |-> << >>, failed |-> {}, store_failed |-> FALSE, sweeps |-> 0,
     swept |-> FALSE, cleaned |-> 0]

NoExtraction == [pc |-> "idle", id |-> 0, url |-> "", image_url |-> PyNone]

\* no request has been answered yet
NoCall == [fn |-> "none"]

InitBase ==
    /\ now = 0
    /\ store = {ManualArticle}
    /\ is_running = FALSE
    /\ scheduler = FALSE
    /\ daily_runs = 0
    /\ pc = [r \in Runs |-> "idle"]
    /\ loc = [r \in Runs |-> IdleLoc]
    /\ cur = "none"
    /\ ext = NoExtraction
    /\ ran = FALSE
    /\ call = NoCall

Init ==
    /\ InitBase
    /\ web = [s \in Sources |-> << >>]

InFlight(r) == pc[r] \in {"fetching", "storing", "closing"}

(***************************************************************************)
(* RSSCollectionService._extract_main_image_from_rss_entry                 *)
(***************************************************************************)
\* media:thumbnail items; url is PyNone where the item has no url key
Thumbnails ==
    {<< >>, <<[url |-> PyNone]>>, <<[url |-> "http://x.com/thumb.jpg"]>>,
     <<[url |-> PyNone], [url |-> "http://x.com/thumb.jpg"]>>}

\* media:content items; type is "" where the item has no type key
MediaItems ==
    {[type |-> "image/jpeg", url |-> "http://x.com/media"],
     [type |-> "video/mp4", url |-> "http://x.com/clip.mp4"],
     [type |-> "video/mp4", url |-> "http://x.com/poster.JPG"],
     [type |-> "", url |-> "http://x.com/stream"],
     [type |-> "unknown", url |-> "http://x.com/file"]}

MediaContents ==
    {<< >>} \cup {<<m>> : m \in MediaItems}
    \cup {<<m, n>> : m \in {x \in MediaItems : x.type = "video/mp4"},
                     n \in MediaItems}

\* enclosures; href is "" where the enclosure has no href key
Enclosures ==
    {<< >>, <<[type |-> "audio/mpeg", href |-> "http://x.com/cast.mp3"]>>,
     <<[type |-> "image/png", href |-> "http://x.com/encl.png"]>>,
     <<[type |-> "image/png", href |-> ""]>>,
     <<[type |-> "audio/mpeg", href |-> "http://x.com/cast.mp3"],
       [type |-> "image/png", href |-> "http://x.com/encl.png"]>>}

\* the src attributes of the img tags of the description
InlineImages ==
    {<< >>, <<"/rel.png">>, <<"http://x.com/inline.png">>,
     <<"/rel.png", "http://x.com/inline.png">>}

\* type.startswith('image')
StartsWithImage(type) == type \in {"image/jpeg", "image/png"}

\* media_url.lower().endswith(ext) for one of the six image extensions
EndsWithImageExtension(url) ==
    url \in {"http://x.com/poster.JPG", "http://x.com/thumb.jpg",
             "http://x.com/encl.png", "http://x.com/inline.png", "/rel.png"}

\* src.startswith('http')
StartsWithHttp(src) == src = "http://x.com/inline.png"

\* the first thumbnail that has a url
RECURSIVE first_thumbnail(_)
first_thumbnail(thumbs) ==
    IF thumbs = << >> THEN PyNone
    ELSE IF Head(thumbs).url # PyNone THEN Head(thumbs).url
    ELSE first_thumbnail(Tail(thumbs))

\* the first media item that passes for an image: by its type, for want of
\* a type, or by the extension of its url
RECURSIVE first_media(_)
first_media(media) ==
    IF media = << >> THEN PyNone
    ELSE LET m == Head(media)
             is_image == \/ StartsWithImage(m.type)
                         \/ m.type = ""
                         \/ m.type = "unknown"
                         \/ EndsWithImageExtension(m.url)
         IN IF is_image THEN m.url ELSE first_media(Tail(media))

\* the href of the first enclosure of an image type
RECURSIVE first_enclosure(_)
first_enclosure(enclosures) ==
    IF enclosures = << >> THEN PyNone
    ELSE IF StartsWithImage(Head(enclosures).type) THEN Head(enclosures).href
    ELSE first_enclosure(Tail(enclosures))

\* the first img of the description whose src is an http URL
RECURSIVE first_inline(_)
first_inline(imgs) ==
    IF imgs = << >> THEN PyNone
    ELSE IF Head(imgs) # "" /\ StartsWithHttp(Head(imgs)) THEN Head(imgs)
    ELSE first_inline(Tail(imgs))

\* _extract_main_image_from_rss_entry
extract_main_image_from_rss_entry(thumbs, media, enclosures, imgs) ==
    IF first_thumbnail(thumbs) # PyNone THEN first_thumbnail(thumbs)
    ELSE IF first_media(media) # PyNone THEN first_media(media)
    ELSE IF first_enclosure(enclosures) # PyNone THEN first_enclosure(enclosures)
    ELSE first_inline(imgs)

(***************************************************************************)
(* _fetch_rss_feed: the candidates of one source.  Every failure is caught *)
(* inside and comes back as the empty list.                                *)
(***************************************************************************)
RECURSIVE ParseEntries(_, _, _)
ParseEntries(entries, source, t) ==
    IF entries = << >> THEN << >>
    ELSE LET e == Head(entries)
             rest == ParseEntries(Tail(entries), source, t)
         IN IF e.title = "" \/ e.link = "" THEN rest
            ELSE <<[title |-> e.title, url |-> e.link,
                    content_hash |-> generate_content_hash(e.title, e.link),
                    image_url |-> extract_main_image_from_rss_entry(
                                      e.media_thumbnail, << >>, << >>, << >>),
                    collected_at |-> t, source_name |-> source]>> \o rest

fetch_rss_feed(source, outcome, t) ==
    IF outcome.kind # "ok" THEN << >>
    ELSE IF outcome.entries = << >> THEN << >>
    ELSE ParseEntries(outcome.entries, source, t)


\* asyncio.gather(..., return_exceptions=True) hands back, per source, either
\* the value of the task or the exception it raised; _fetch_rss_feed catches
\* every exception itself, so its task always ends with a value
FetchTask(source, outcome, t) ==
    [raised |-> FALSE, value |-> fetch_rss_feed(source, outcome, t)]

\* the loop as it would be under cancel-on-first-error: one source that
\* delivers nothing takes its siblings' articles with it
RECURSIVE AllArticlesCancelling(_, _)
AllArticlesCancelling(results, n) ==
    IF n = 0 THEN << >>
    ELSE IF \E s \in 1..n : results[s].value = << >> THEN << >>
    ELSE AllArticlesCancelling(results, n - 1) \o results[n].value

\* the ways the tasks of sources 1..n can end, offered[s] being what the
\* fetch of source s can bring back; failed records that the fetch failed
RECURSIVE Gathered(_, _, _)
Gathered(offered, n, t) ==
    IF n = 0 THEN {<< >>}
    ELSE {Append(g, a) :
            g \in Gathered(offered, n - 1, t),
            a \in {[task |-> FetchTask(n, o, t), failed |-> o.kind # "ok"] :
                     o \in offered[n]}}

\* the "Process results" loop of collect_all_feeds, sources 1..n
RECURSIVE AllArticles(_, _)
AllArticles(results, n) ==
    IF n = 0 THEN << >>
    ELSE AllArticles(results, n - 1)
         \o (IF results[n].raised THEN << >> ELSE results[n].value)

RECURSIVE TotalFound(_, _)
TotalFound(results, n) ==
    IF n = 0 THEN 0
    ELSE TotalFound(results, n - 1)
         + (IF results[n].raised THEN 0 ELSE Len(results[n].value))

RECURSIVE Errors(_, _)
Errors(results, n) ==
    IF n = 0 THEN << >>
    ELSE Errors(results, n - 1)
         \o (IF results[n].raised THEN <<n>> ELSE << >>)

(***************************************************************************)
(* The articles table.                                                     *)
(***************************************************************************)
\* the existence check as it would be if it looked at the hash alone
ExistingByHash(rows, a) ==
    {row \in rows : row.content_hash = a.content_hash}

\* the existence check as it would be if it looked at the url alone
ExistingByUrl(rows, a) ==
    {row \in rows : row.url = a.url}

\* the or_ filter of the existence check
Existing(rows, a) ==
    {row \in rows : row.content_hash = a.content_hash \/ row.url = a.url}

PlaceholderContent(title) == title \o "\n\n(Click to read full article)"

\* the id the database gives a new row: one that no row carries and that no
\* call in flight still holds
NewId(rows) ==
    CHOOSE i \in 1..(Cardinality(rows) + 2) :
        /\ \A row \in rows : row.id # i
        /\ i # ext.id
        /\ \A j \in 1..(i - 1) : j = ext.id \/ \E row \in rows : row.id = j

\* _format_datetime: None stays None, a datetime becomes its ISO string,
\* which the timestamp column reads back as the same moment
format_datetime(dt) == IF dt = NULL THEN NULL ELSE dt

\* the row as it would be without its collected_at key
article_data_uncollected(a, id) ==
    [id |-> id, title |-> a.title, url |-> a.url,
     content |-> PlaceholderContent(a.title),
     content_hash |-> a.content_hash, image_url |-> a.image_url,
     collected_at |-> NULL, analysis_status |-> "not_analyzed",
     word_count |-> NULL, reading_time |-> NULL,
     content_extracted_at |-> NULL]

article_data(a, id) ==
    [id |-> id, title |-> a.title, url |-> a.url,
     content |-> PlaceholderContent(a.title),
     content_hash |-> a.content_hash, image_url |-> a.image_url,
     collected_at |-> format_datetime(a.collected_at),
     analysis_status |-> "not_analyzed",
     word_count |-> NULL, reading_time |-> NULL,
     content_extracted_at |-> NULL]

\* the delete as it would be with lte in place of lt
ExpiredInclusive(rows, t) ==
    {row \in rows : row.collected_at # NULL
                    /\ row.collected_at <= t - RetentionDays}

\* the rows the delete of _cleanup_old_articles removes
Expired(rows, t) ==
    {row \in rows : row.collected_at # NULL
                    /\ row.collected_at < t - RetentionDays}

cleanup_old_articles(rows, t) == rows \ Expired(rows, t)

(***************************************************************************)
(* collect_all_feeds                                                       *)
(***************************************************************************)
\* entry of collect_all_feeds up to the await of asyncio.gather
StartRun(r) ==
    /\ pc' = [pc EXCEPT ![r] = "fetching"]
    /\ loc' = [loc EXCEPT ![r] = IdleLoc]

\* the gather as it would be if session.get had no timeout: a run with a
\* source that does not answer waits for it for ever
gather_untimed(r, offered) ==
    /\ cur = "none"
    /\ pc[r] = "fetching"
    /\ \E g \in Gathered(offered, NumSources, now) :
         LET results == [s \in Sources |-> g[s].task]
         IN IF \E s \in Sources : g[s].failed
            THEN /\ pc' = [pc EXCEPT ![r] = "hung"]
                 /\ UNCHANGED <<loc, cur>>
            ELSE /\ loc' = [loc EXCEPT ![r] =
                      [IdleLoc EXCEPT
                         !.results = results,
                         !.all_articles = AllArticles(results, NumSources),
                         !.total_articles_found = TotalFound(results, NumSources),
                         !.errors = Errors(results, NumSources),
                         !.failed = {s \in Sources : g[s].failed}]]
                 /\ pc' = [pc EXCEPT ![r] = "storing"]
                 /\ cur' = r
    /\ UNCHANGED <<now, store, is_running, scheduler, daily_runs, ext, web, ran, call>>

\* gather returns and the results are aggregated; offered[s] is what the
\* fetch of source s can bring back.  The coroutine goes on into
\* _store_articles without yielding.
gather(r, offered) ==
    /\ cur = "none"
    /\ pc[r] = "fetching"
    /\ \E g \in Gathered(offered, NumSources, now) :
         LET results == [s \in Sources |-> g[s].task]
         IN loc' = [loc EXCEPT ![r] =
                      [IdleLoc EXCEPT
                         !.results = results,
                         !.all_articles = AllArticles(results, NumSources),
                         !.total_articles_found = TotalFound(results, NumSources),
                         !.errors = Errors(results, NumSources),
                         !.failed = {s \in Sources : g[s].failed}]]
    /\ pc' = [pc EXCEPT ![r] = "storing"]
    /\ cur' = r
    /\ UNCHANGED <<now, store, is_running, scheduler, daily_runs, ext, web, ran, call>>

StoreFaults == {"none", "check_raises", "insert_raises", "no_data"}

\* how one pass of the for loop of _store_articles ends
StoreOutcome(rows, a, fault) ==
    IF fault = "check_raises" THEN "check_error"
    ELSE IF Existing(rows, a) # {} THEN "skipped"
    ELSE IF fault = "insert_raises" THEN "insert_error"
    ELSE IF fault = "no_data" THEN "no_data"
    ELSE "inserted"

\* the loop as it would be without the try/except around one article: the
\* first storage error ends the loop
store_articles_aborting(r, faults) ==
    /\ cur = r
    /\ pc[r] = "storing"
    /\ loc[r].idx <= Len(loc[r].all_articles)
    /\ \E fault \in faults :
         LET l == loc[r]
             a == l.all_articles[l.idx]
             outcome == StoreOutcome(store, a, fault)
             error == outcome \in {"check_error", "insert_error"}
         IN /\ store' = IF outcome = "inserted"
                        THEN store \cup {article_data(a, NewId(store))}
                        ELSE store
            /\ loc' = [loc EXCEPT ![r] =
                         [l EXCEPT
                            !.idx = IF error THEN @ ELSE @ + 1,
                            !.results = IF error THEN << >> ELSE @,
                            !.all_articles = IF error THEN << >> ELSE @,
                            !.new_articles_stored =
                                IF outcome = "inserted" THEN @ + 1 ELSE @,
                            !.store_failed = @ \/ error]]
            /\ pc' = [pc EXCEPT ![r] = IF error THEN "closing" ELSE @]
            /\ cur' = IF error THEN "none" ELSE cur
    /\ UNCHANGED <<now, is_running, scheduler, daily_runs, ext, web, ran, call>>

\* the loop as it would be if it counted every insert it sent, whether or
\* not the insert brought the new row back
store_articles_counting_attempts(r, faults) ==
    /\ cur = r
    /\ pc[r] = "storing"
    /\ loc[r].idx <= Len(loc[r].all_articles)
    /\ \E fault \in faults :
         LET l == loc[r]
             a == l.all_articles[l.idx]
             outcome == StoreOutcome(store, a, fault)
         IN /\ store' = IF outcome = "inserted"
                        THEN store \cup {article_data(a, NewId(store))}
                        ELSE store
            /\ loc' = [loc EXCEPT ![r] =
                         [l EXCEPT
                            !.idx = l.idx + 1,
                            !.new_articles_stored =
                                IF outcome \in {"inserted", "no_data"}
                                THEN @ + 1 ELSE @,
                            !.store_failed =
                                @ \/ outcome \in {"check_error", "insert_error"}]]
    /\ UNCHANGED <<now, is_running, scheduler, daily_runs, pc, cur, ext, web, ran, call>>

\* one pass of the for loop of _store_articles
store_articles(r, faults) ==
    /\ cur = r
    /\ pc[r] = "storing"
    /\ loc[r].idx <= Len(loc[r].all_articles)
    /\ \E fault \in faults :
         LET l == loc[r]
             a == l.all_articles[l.idx]
             outcome == StoreOutcome(store, a, fault)
         IN /\ store' = IF outcome = "inserted"
                        THEN store \cup {article_data(a, NewId(store))}
                        ELSE store
            /\ loc' = [loc EXCEPT ![r] =
                         [l EXCEPT
                            !.idx = l.idx + 1,
                            !.new_articles_stored =
                                IF outcome = "inserted" THEN @ + 1 ELSE @,
                            !.store_failed =
                                @ \/ outcome \in {"check_error", "insert_error"}]]
    /\ UNCHANGED <<now, is_running, scheduler, daily_runs, pc, cur, ext, web, ran, call>>

\* _store_articles returns (at once if there is nothing to store) and the
\* coroutine leaves the aiohttp session, where it may yield
leave_session(r) ==
    /\ cur = r
    /\ pc[r] = "storing"
    /\ loc[r].idx > Len(loc[r].all_articles)
    /\ loc' = [loc EXCEPT ![r] =
                 [@ EXCEPT !.results = << >>, !.all_articles = << >>]]
    /\ pc' = [pc EXCEPT ![r] = "closing"]
    /\ cur' = "none"
    /\ UNCHANGED <<now, store, is_running, scheduler, daily_runs, ext, web, ran, call>>

\* the end of the run as it would be without the try/except around the
\* sweep: its failure leaves the run without statistics
cleanup_and_return_raising(r, raises) ==
    /\ cur = "none"
    /\ pc[r] = "closing"
    /\ \E sweep_raises \in raises :
         /\ store' = IF sweep_raises THEN store
                     ELSE cleanup_old_articles(store, now)
         /\ loc' = [loc EXCEPT ![r] =
                     [@ EXCEPT
                        !.sweeps = @ + 1,
                        !.swept = ~sweep_raises,
                        !.cleaned = IF sweep_raises THEN 0
                                    ELSE Cardinality(Expired(store, now)),
                        !.stats =
                            IF sweep_raises THEN << >>
                            ELSE
                            [feeds_processed |-> NumSources,
                             total_articles_found |-> loc[r].total_articles_found,
                             new_articles_stored |-> loc[r].new_articles_stored,
                             errors |-> loc[r].errors]]]
    /\ pc' = [pc EXCEPT ![r] = "done"]
    /\ cur' = r
    /\ UNCHANGED <<now, is_running, scheduler, daily_runs, ext, web, ran, call>>

\* the sweep (its failure is logged and swallowed), then the statistics
cleanup_and_return(r, raises) ==
    /\ cur = "none"
    /\ pc[r] = "closing"
    /\ \E sweep_raises \in raises :
         /\ store' = IF sweep_raises THEN store
                     ELSE cleanup_old_articles(store, now)
         /\ loc' = [loc EXCEPT ![r] =
                     [@ EXCEPT
                        !.sweeps = @ + 1,
                        !.swept = ~sweep_raises,
                        !.cleaned = IF sweep_raises THEN 0
                                    ELSE Cardinality(Expired(store, now)),
                        !.stats =
                            [feeds_processed |-> NumSources,
                             total_articles_found |-> loc[r].total_articles_found,
                             new_articles_stored |-> loc[r].new_articles_stored,
                             errors |-> loc[r].errors]]]
    /\ pc' = [pc EXCEPT ![r] = "done"]
    /\ cur' = r
    /\ UNCHANGED <<now, is_running, scheduler, daily_runs, ext, web, ran, call>>

\* the caller takes the statistics (logs them, or answers the request)
finish(r) ==
    /\ cur = r
    /\ pc[r] = "done"
    /\ pc' = [pc EXCEPT ![r] = "idle"]
    /\ loc' = [loc EXCEPT ![r] = IdleLoc]
    /\ cur' = "none"
    /\ ran' = TRUE
    /\ UNCHANGED <<now, store, is_running, scheduler, daily_runs, ext, web, call>>

\* POST /admin/rss/collect and SchedulerService.trigger_rss_collection
trigger_rss_collection ==
    /\ cur = "none"
    /\ pc["manual"] = "idle"
    /\ StartRun("manual")
    /\ UNCHANGED <<now, store, is_running, scheduler, daily_runs, cur, ext, web, ran, call>>

\* the endpoint as it would be if it refused statistics of a run in which a
\* feed failed
trigger_rss_collection_response_strict(r) ==
    IF loc[r].stats = << >> \/ loc[r].failed # {}
    THEN [status_code |-> 500, status |-> "error", data |-> << >>]
    ELSE [status_code |-> 200, status |-> "success", data |-> loc[r].stats]

\* what POST /admin/rss/collect answers once collect_all_feeds is over: the
\* statistics as they are, or 500 if the call raised (no statistics)
trigger_rss_collection_response(r) ==
    IF loc[r].stats = << >>
    THEN [status_code |-> 500, status |-> "error", data |-> << >>]
    ELSE [status_code |-> 200, status |-> "success", data |-> loc[r].stats]

\* what SchedulerService.trigger_rss_collection returns
scheduler_trigger_result(r) ==
    IF loc[r].stats = << >>
    THEN [status |-> "error", stats |-> << >>]
    ELSE [status |-> "success", stats |-> loc[r].stats]

\* Days go by.  A run or an extraction lasts seconds (their fetches time
\* out), so the clock, counted in days, moves between them.
Tick ==
    /\ cur = "none"
    /\ \A r \in Runs : pc[r] = "idle"
    /\ ext.pc = "idle"
    /\ \E d \in Days : d > now /\ now' = d
    /\ ran' = FALSE
    /\ UNCHANGED <<store, is_running, scheduler, daily_runs, pc, loc, cur, ext,
                   web, call>>

(***************************************************************************)
(* RSSCollectionService: the language of an article                        *)
(***************************************************************************)
\* language tags of entries and feeds; "" stands for an absent or empty one
LanguageTags == {"", "ar-TN", "FR-fr", "en-US", "de"}

Titles == {"Hi", "Actualites"}

Summaries ==
    {"Test", "Les dernieres nouvelles de Tunisie",
     "Die neuesten Nachrichten aus Tunis", "Le ultime notizie dalla Tunisia",
     "The latest news from Tunisia today",
     "Akhir al-akhbar min Tunis al-yawm", "Las ultimas noticias desde Tunez",
     "12345 67890 12345 67890"}

\* 25 blanks
Blank == Rep(" ", 25)

\* the texts detection is asked about directly: the summaries, no text,
\* blanks, and markup around a short text
DetectionTexts ==
    Summaries \cup {"", Blank, "<p>Bonjour a tous</p><br/>"}

\* str.strip() on the texts above
TextStrip(text) == IF text = Blank THEN "" ELSE text

\* RSSCollectionService._clean_text on the texts above: tags removed, white
\* space collapsed and stripped
rss_clean_text(text) ==
    CASE text = Blank -> ""
      [] text = "<p>Bonjour a tous</p><br/>" -> "Bonjour a tous"
      [] OTHER -> text

\* langdetect raises LangDetectException on a text without letters
DetectFailed == "<LangDetectException>"

\* lang_code.lower() and the startswith tests: ar, fr or en, else nothing
language_of_tag(tag) ==
    CASE tag = "ar-TN" -> "ar"
      [] tag = "FR-fr" -> "fr"
      [] tag = "en-US" -> "en"
      [] OTHER -> PyNone

\* _extract_language_from_rss_metadata: the entry's tag, the feed's language,
\* the lang of the feed's root
extract_language_from_rss_metadata(entry_language, feed_language, feed_lang) ==
    IF entry_language # "" /\ language_of_tag(entry_language) # PyNone
    THEN language_of_tag(entry_language)
    ELSE IF feed_language # "" /\ language_of_tag(feed_language) # PyNone
    THEN language_of_tag(feed_language)
    ELSE language_of_tag(feed_lang)

\* langdetect.detect on the texts above
detect(text) ==
    CASE text \in {"Les dernieres nouvelles de Tunisie",
                   "Hi Les dernieres nouvelles de Tunisie",
                   "Actualites Les dernieres nouvelles de Tunisie",
                   "Actualites Test"} -> "fr"
      [] text \in {"Die neuesten Nachrichten aus Tunis",
                   "Hi Die neuesten Nachrichten aus Tunis",
                   "Actualites Die neuesten Nachrichten aus Tunis"} -> "de"
      [] text \in {"Le ultime notizie dalla Tunisia",
                   "Hi Le ultime notizie dalla Tunisia",
                   "Actualites Le ultime notizie dalla Tunisia"} -> "it"
      [] text \in {"Akhir al-akhbar min Tunis al-yawm",
                   "Hi Akhir al-akhbar min Tunis al-yawm",
                   "Actualites Akhir al-akhbar min Tunis al-yawm"} -> "ar"
      [] text \in {"Las ultimas noticias desde Tunez",
                   "Hi Las ultimas noticias desde Tunez",
                   "Actualites Las ultimas noticias desde Tunez"} -> "es"
      [] text \in {"12345 67890 12345 67890", ""} -> DetectFailed
      [] OTHER -> "en"

\* the table as it would be if a code it does not list were passed through
language_mapping_passthrough(detected) ==
    CASE detected \in {"it", "es"} -> "fr"
      [] OTHER -> detected

\* self.language_mapping.get(detected, 'unknown')
language_mapping(detected) ==
    CASE detected \in {"ar", "fr", "en"} -> detected
      [] detected \in {"it", "es"} -> "fr"
      [] OTHER -> "unknown"

MinDetectionLength == 20

\* the detection as it would be without its two length tests
detect_language_from_content_unchecked(text) ==
    LET clean_text == rss_clean_text(text)
    IN IF detect(clean_text) = DetectFailed THEN "unknown"
       ELSE language_mapping(detect(clean_text))

\* _detect_language_from_content: too short a text is unknown, before and
\* after cleaning; a LangDetectException is caught and gives unknown
detect_language_from_content(text) ==
    IF text = "" \/ Len(TextStrip(text)) < MinDetectionLength THEN "unknown"
    ELSE LET clean_text == rss_clean_text(text)
         IN IF Len(clean_text) < MinDetectionLength THEN "unknown"
            ELSE IF detect(clean_text) = DetectFailed THEN "unknown"
            ELSE language_mapping(detect(clean_text))

\* article.get('language', 'unknown') in the row _store_articles builds
stored_language(language) == IF language = PyNone THEN "unknown" ELSE language

\* the resolution as it would be if the text were asked before the tags
determine_article_language_content_first(entry_language, feed_language, feed_lang, title, summary) ==
    LET rss_language == extract_language_from_rss_metadata(
                            entry_language, feed_language, feed_lang)
        content_for_detection == title \o " " \o summary
        detected == IF Len(content_for_detection) >= MinDetectionLength
                    THEN detect_language_from_content(content_for_detection)
                    ELSE "unknown"
    IN IF detected # "unknown" THEN detected
       ELSE IF rss_language # PyNone THEN rss_language
       ELSE "unknown"

\* _determine_article_language
determine_article_language(entry_language, feed_language, feed_lang, title, summary) ==
    LET rss_language == extract_language_from_rss_metadata(
                            entry_language, feed_language, feed_lang)
        content_for_detection == title \o " " \o summary
    IN IF rss_language # PyNone THEN rss_language
       ELSE IF Len(content_for_detection) >= MinDetectionLength
               /\ detect_language_from_content(content_for_detection)
                    # "unknown"
       THEN detect_language_from_content(content_for_detection)
       ELSE "unknown"

(***************************************************************************)
(* ContentExtractionService.extract_content                                *)
(***************************************************************************)
StrategyFailed ==
    [success |-> FALSE, title |-> "", content |-> "", author |-> "",
     publishDate |-> "", images |-> << >>]

Page(t, c) ==
    [success |-> TRUE, title |-> t, content |-> c, author |-> "",
     publishDate |-> "", images |-> << >>]

\* a page whose markup carries one image the strategy picks up
PageWithImage(t, c, img) ==
    [success |-> TRUE, title |-> t, content |-> c, author |-> "",
     publishDate |-> "", images |-> <<img>>]

Result(t, c, a, d) ==
    [success |-> TRUE, title |-> t, content |-> c, author |-> a,
     publishDate |-> d, images |-> << >>]

\* a body of 201 characters and 41 words
LongBody == Rep("word ", 40) \o "x"

\* the length a container's text must exceed for the DOM scan to settle on it
SubstantialLength == 200

\* _extract_with_newspaper3k: fails, or title, text, authors and date as found
Newspaper3kPages ==
    {StrategyFailed}
    \cup {Result(t, c, a, d) : t \in {"", "Title"}, c \in {"", "Full text"},
                               a \in {"", "Ann"}, d \in {"", "2024-01-01"}}

\* _extract_with_readability: fails, or title and text (no author, no date)
ReadabilityPages ==
    {StrategyFailed}
    \cup {Result(t, c, "", "") : t \in {"", "Title"},
                                 c \in {"", "Main text", "Full text"}}

\* the text _extract_with_beautifulsoup settles on: the container's if it is
\* substantial, else the body's if there is a body
bs_content(container, body) ==
    IF container = PyNone \/ container = ""
       \/ Len(container) < SubstantialLength
    THEN IF body # PyNone THEN body ELSE container
    ELSE container

\* a text of exactly 200 characters and one of 205
Text200 == Rep("word ", 39) \o "words"
Text205 == Rep("text ", 41)

\* the cleaned texts of the elements the content selectors match, in the
\* order of the selectors
Candidates ==
    LET Texts == {"Lead text", Text200, LongBody, Text205}
    IN {<< >>} \cup {<<c>> : c \in Texts}
       \cup {<<c, d>> : c \in Texts, d \in Texts}

\* the text of <body>, PyNone where the page has none
Bodies == {PyNone, "", "Body text", Text205}

\* the for loop over content_selectors: content is the text of each match in
\* turn, and the loop ends at the first one longer than 200 characters
RECURSIVE scan_candidates(_, _)
scan_candidates(candidates, content) ==
    IF candidates = << >> THEN content
    ELSE IF Len(Head(candidates)) > SubstantialLength THEN Head(candidates)
    ELSE scan_candidates(Tail(candidates), Head(candidates))

\* the content _extract_with_beautifulsoup settles on: what the loop left,
\* replaced by the body's text if it is empty or shorter than 200 characters
\* and there is a body
beautifulsoup_content(candidates, body) ==
    LET content == scan_candidates(candidates, PyNone)
    IN IF content = PyNone \/ content = "" \/ Len(content) < SubstantialLength
       THEN IF body # PyNone THEN body ELSE content
       ELSE content

\* _extract_with_beautifulsoup: fails, or what the DOM scan finds
BeautifulsoupPages ==
    {StrategyFailed}
    \cup {Result(t, bs_content(container, body), a, "") :
            t \in {"", "Headline"}, container \in {PyNone, "Lead text", LongBody},
            body \in {PyNone, "", "Body text"}, a \in {"", "Ann"}}

\* the strategies in the order of the list, each with its result, for the
\* pages above
PageShapes ==
    {<<[name |-> "newspaper3k", result |-> a],
       [name |-> "readability", result |-> b],
       [name |-> "beautifulsoup", result |-> c]>> :
        a \in Newspaper3kPages, b \in ReadabilityPages,
        c \in BeautifulsoupPages}

\* what each strategy can hand back for a page.  beautifulsoup leaves content
\* None when the page has no candidate element and no body.
Newspaper3kResults ==
    {StrategyFailed, Page("Title", ""), Page("Title", "Full text")}

ReadabilityResults ==
    {StrategyFailed, Page("", ""), Page("", "Full text")}

BeautifulsoupResults ==
    {StrategyFailed, Page("", PyNone), Page("Title", PyNone),
     Page("", "Full text")}

\* the strategies in the order of the list, each with its result
PageResults ==
    {<<[name |-> "newspaper3k", result |-> a],
       [name |-> "readability", result |-> b],
       [name |-> "beautifulsoup", result |-> c]>> :
        a \in Newspaper3kResults, b \in ReadabilityResults,
        c \in BeautifulsoupResults}

Score(result) ==
    Len(result.content)
    + (IF result.title # "" THEN 100 ELSE 0)
    + (IF result.author # "" THEN 50 ELSE 0)
    + (IF result.publishDate # "" THEN 50 ELSE 0)

NoBest == [name |-> "", result |-> StrategyFailed, score |-> 0]

\* the loop as it would be with >= in the comparison: a later strategy with
\* the same score replaces the earlier one
RECURSIVE BestResultKeepingLast(_, _)
BestResultKeepingLast(strategies, best) ==
    IF strategies = << >> THEN best
    ELSE LET st == Head(strategies)
             counts == st.result.success /\ st.result.content # PyNone
             score == IF counts THEN Score(st.result) ELSE 0
         IN BestResultKeepingLast(Tail(strategies),
                       IF counts /\ score >= best.score
                       THEN [name |-> st.name, result |-> st.result,
                             score |-> score]
                       ELSE best)

\* the loop as it would be without the try/except in its body: the first
\* strategy that fails ends it
RECURSIVE BestResultStopping(_, _)
BestResultStopping(strategies, best) ==
    IF strategies = << >> THEN best
    ELSE LET st == Head(strategies)
             counts == st.result.success /\ st.result.content # PyNone
             score == IF counts THEN Score(st.result) ELSE 0
         IN IF ~counts THEN best
            ELSE BestResultStopping(Tail(strategies),
                       IF score > best.score
                       THEN [name |-> st.name, result |-> st.result,
                             score |-> score]
                       ELSE best)

\* the for loop over the strategies: len(None) raises inside the try, which
\* skips the strategy
RECURSIVE BestResult(_, _)
BestResult(strategies, best) ==
    IF strategies = << >> THEN best
    ELSE LET st == Head(strategies)
             counts == st.result.success /\ st.result.content # PyNone
             score == IF counts THEN Score(st.result) ELSE 0
         IN BestResult(Tail(strategies),
                       IF counts /\ score > best.score
                       THEN [name |-> st.name, result |-> st.result,
                             score |-> score]
                       ELSE best)

\* round(n / d) for n >= 0, d > 0: to the nearest integer, a half to the even
\* neighbour
PyRound(n, d) ==
    LET q == n \div d
        r == n % d
    IN IF 2 * r < d THEN q
       ELSE IF 2 * r > d THEN q + 1
       ELSE IF q % 2 = 0 THEN q ELSE q + 1

WordsPerMinute == 225

calculate_reading_time(word_count) ==
    LET minutes == PyRound(word_count, WordsPerMinute)
    IN IF minutes > 1 THEN minutes ELSE 1

\* len(content.split()) of the texts the pages carry
WordCount(content) ==
    CASE content = "" -> 0
      [] content = PyNone -> 0
      [] content = LongBody -> 41
      [] OTHER -> 2

ExtractionError(code) == [status |-> "error", code |-> code, content |-> ""]

FetchErrors == {"http_error", "timeout", "fetch_error"}

\* the answers of a site: no page, or a page and what the strategies make of it
SiteAnswers ==
    {[fetch |-> f, strategies |-> << >>] : f \in FetchErrors}
    \cup {[fetch |-> "ok", strategies |-> p] : p \in PageResults}

\* extract_content as it would be if a strategy's report of success were
\* enough, whatever its score
extract_content_unscored(fetch, strategies) ==
    IF fetch = "http_error" THEN ExtractionError("HTTP_ERROR")
    ELSE IF fetch = "timeout" THEN ExtractionError("TIMEOUT")
    ELSE IF fetch = "fetch_error" THEN ExtractionError("FETCH_ERROR")
    ELSE LET best == BestResult(strategies, [NoBest EXCEPT !.score = -1])
         IN IF best.name = ""
            THEN ExtractionError("EXTRACTION_FAILED")
            ELSE [status |-> "success", code |-> best.name,
                  content |-> best.result.content,
                  title |-> IF best.result.title # ""
                            THEN best.result.title ELSE "Untitled",
                  author |-> best.result.author,
                  publishDate |-> best.result.publishDate,
                  images |-> best.result.images,
                  wordCount |-> WordCount(best.result.content),
                  readingTime |->
                      calculate_reading_time(WordCount(best.result.content)),
                  extractionStrategy |-> best.name]

\* extract_content after the URL check, for one answer of the site
extract_content(fetch, strategies) ==
    IF fetch = "http_error" THEN ExtractionError("HTTP_ERROR")
    ELSE IF fetch = "timeout" THEN ExtractionError("TIMEOUT")
    ELSE IF fetch = "fetch_error" THEN ExtractionError("FETCH_ERROR")
    ELSE LET best == BestResult(strategies, NoBest)
         IN IF best.name = "" \/ best.score = 0
            THEN ExtractionError("EXTRACTION_FAILED")
            ELSE [status |-> "success", code |-> best.name,
                  content |-> best.result.content,
                  title |-> IF best.result.title # ""
                            THEN best.result.title ELSE "Untitled",
                  author |-> best.result.author,
                  publishDate |-> best.result.publishDate,
                  images |-> best.result.images,
                  wordCount |-> WordCount(best.result.content),
                  readingTime |->
                      calculate_reading_time(WordCount(best.result.content)),
                  extractionStrategy |-> best.name]

\* the URLs a request can carry
Urls ==
    {"http://x.com/a", "HTTPS://x.com/a", "ftp://x.com/a", "x.com/a",
     "http:///a", "http://:80/a", "http://[x.com/a"}

\* urllib.parse.urlparse: the scheme in lower case, the network location
\* between // and the next /, and the host inside it; an unmatched bracket
\* raises ValueError
urlparse(url) ==
    CASE url = "http://x.com/a" ->
           [raises |-> FALSE, scheme |-> "http", netloc |-> "x.com",
            hostname |-> "x.com"]
      [] url = "HTTPS://x.com/a" ->
           [raises |-> FALSE, scheme |-> "https", netloc |-> "x.com",
            hostname |-> "x.com"]
      [] url = "ftp://x.com/a" ->
           [raises |-> FALSE, scheme |-> "ftp", netloc |-> "x.com",
            hostname |-> "x.com"]
      [] url = "x.com/a" ->
           [raises |-> FALSE, scheme |-> "", netloc |-> "", hostname |-> ""]
      [] url = "http:///a" ->
           [raises |-> FALSE, scheme |-> "http", netloc |-> "", hostname |-> ""]
      [] url = "http://:80/a" ->
           [raises |-> FALSE, scheme |-> "http", netloc |-> ":80",
            hostname |-> ""]
      [] OTHER ->
           [raises |-> TRUE, scheme |-> "", netloc |-> "", hostname |-> ""]

\* _validate_url: the scheme and the network location, not the host
validate_url(url) ==
    LET parsed == urlparse(url)
    IN /\ ~parsed.raises
       /\ parsed.scheme \in {"http", "https"}
       /\ parsed.netloc # ""

\* the answers session.get can have for a URL: one without a host never
\* leaves the client, which raises InvalidURL, a ClientError
AnswersFor(url) ==
    IF urlparse(url).hostname = ""
    THEN {[fetch |-> "fetch_error", strategies |-> << >>]}
    ELSE {[fetch |-> f, strategies |-> << >>] : f \in FetchErrors}
         \cup {[fetch |-> "ok", strategies |-> p] : p \in PageShapes}

\* ContentExtractionService.extract_content: the URL check, then the fetch
\* and the strategies; fetched tells whether session.get was called
extract_content_url(url, fetch, strategies) ==
    IF ~validate_url(url)
    THEN [result |-> ExtractionError("INVALID_URL"), fetched |-> FALSE]
    ELSE [result |-> extract_content(fetch, strategies), fetched |-> TRUE]

\* the mapping as it would be without its TIMEOUT branch
StatusCodePlain(result) ==
    IF result.status = "success" THEN 200
    ELSE IF result.code = "INVALID_URL" THEN 400
    ELSE IF result.code = "HTTP_ERROR" THEN 502
    ELSE IF result.code = "EXTRACTION_FAILED" THEN 422
    ELSE 500

\* POST /extract-content: the status code of the response for a result of
\* the service
StatusCode(result) ==
    IF result.status = "success" THEN 200
    ELSE IF result.code = "INVALID_URL" THEN 400
    ELSE IF result.code = "HTTP_ERROR" THEN 502
    ELSE IF result.code = "TIMEOUT" THEN 504
    ELSE IF result.code = "EXTRACTION_FAILED" THEN 422
    ELSE 500

\* a request that has not been answered
Pending == [status |-> "pending"]

\* POST /extract-content answers the request
extract_content_endpoint ==
    /\ call.fn = "extract_content"
    /\ call.out = Pending
    /\ LET r == extract_content_url(call.arg.url, call.arg.fetch,
                                    call.arg.strategies)
       IN call' = [call EXCEPT !.out = [status |-> "answered",
                                        result |-> r.result,
                                        fetched |-> r.fetched,
                                        status_code |-> StatusCode(r.result)]]
    /\ UNCHANGED <<now, store, is_running, scheduler, daily_runs, pc, loc, cur,
                   ext, web, ran>>

\* the reading time of a text of call.arg words is computed
reading_time_call ==
    /\ call.fn = "calculate_reading_time"
    /\ call.out = Pending
    /\ call' = [call EXCEPT !.out = [status |-> "answered",
                                     result |-> calculate_reading_time(call.arg)]]
    /\ UNCHANGED <<now, store, is_running, scheduler, daily_runs, pc, loc, cur,
                   ext, web, ran>>

\* the language of an entry is resolved
determine_language_call ==
    /\ call.fn = "determine_article_language"
    /\ call.out = Pending
    /\ call' = [call EXCEPT !.out =
                  [status |-> "answered",
                   result |-> determine_article_language(
                                 call.arg.entry_language,
                                 call.arg.feed_language, call.arg.feed_lang,
                                 call.arg.title, call.arg.summary)]]
    /\ UNCHANGED <<now, store, is_running, scheduler, daily_runs, pc, loc, cur,
                   ext, web, ran>>

\* the image of an entry is picked
main_image_call ==
    /\ call.fn = "extract_main_image_from_rss_entry"
    /\ call.out = Pending
    /\ call' = [call EXCEPT !.out =
                  [status |-> "answered",
                   result |-> extract_main_image_from_rss_entry(
                                 call.arg.media_thumbnail,
                                 call.arg.media_content, call.arg.enclosures,
                                 call.arg.description)]]
    /\ UNCHANGED <<now, store, is_running, scheduler, daily_runs, pc, loc, cur,
                   ext, web, ran>>

\* the DOM scan settles on a content
beautifulsoup_call ==
    /\ call.fn = "extract_with_beautifulsoup"
    /\ call.out = Pending
    /\ call' = [call EXCEPT !.out =
                  [status |-> "answered",
                   result |-> beautifulsoup_content(call.arg.candidates,
                                                    call.arg.body)]]
    /\ UNCHANGED <<now, store, is_running, scheduler, daily_runs, pc, loc, cur,
                   ext, web, ran>>

\* the language of a text is detected
detect_language_call ==
    /\ call.fn = "detect_language_from_content"
    /\ call.out = Pending
    /\ call' = [call EXCEPT !.out =
                  [status |-> "answered",
                   result |-> detect_language_from_content(call.arg)]]
    /\ UNCHANGED <<now, store, is_running, scheduler, daily_runs, pc, loc, cur,
                   ext, web, ran>>

\* the requests of each kind, before they are answered
Requests ==
    {[fn |-> "calculate_reading_time", arg |-> w, out |-> Pending] :
        w \in 0..MaxWords}
    \cup UNION {{[fn |-> "extract_content",
                  arg |-> [url |-> url, fetch |-> answer.fetch,
                           strategies |-> answer.strategies],
                  out |-> Pending] : answer \in AnswersFor(url)} :
                url \in Urls}
    \cup {[fn |-> "extract_main_image_from_rss_entry",
           arg |-> [media_thumbnail |-> t, media_content |-> m,
                    enclosures |-> e, description |-> d],
           out |-> Pending] :
            t \in Thumbnails, m \in MediaContents, e \in Enclosures,
            d \in InlineImages}
    \cup {[fn |-> "extract_with_beautifulsoup",
           arg |-> [candidates |-> c, body |-> b], out |-> Pending] :
            c \in Candidates, b \in Bodies}
    \cup {[fn |-> "detect_language_from_content", arg |-> text,
           out |-> Pending] : text \in DetectionTexts}
    \cup {[fn |-> "determine_article_language",
           arg |-> [entry_language |-> e, feed_language |-> f,
                    feed_lang |-> g, title |-> t, summary |-> u],
           out |-> Pending] :
            e \in LanguageTags, f \in LanguageTags, g \in {"", "en-US", "de"},
            t \in Titles, u \in Summaries}

(***************************************************************************)
(* RSSCollectionService.extract_article_content                            *)
(***************************************************************************)
\* the three strategies in the order of the list, each with its result
Strategies(a, b, c) ==
    <<[name |-> "newspaper3k", result |-> a],
      [name |-> "readability", result |-> b],
      [name |-> "beautifulsoup", result |-> c]>>

\* what the site of an article can answer to the call: no page in time, a
\* page that yields a title and no text, a page that yields text
TextAnswers ==
    {[fetch |-> "timeout", strategies |-> << >>],
     [fetch |-> "ok",
      strategies |-> Strategies(Page("Title", ""), StrategyFailed,
                                StrategyFailed)],
     [fetch |-> "ok",
      strategies |-> Strategies(Page("Title", "Full text"), StrategyFailed,
                                StrategyFailed)]}

\* answers that tell the images apart: no page in time, and pages whose text
\* comes with an image from one strategy or the other
ImageAnswers ==
    {[fetch |-> "timeout", strategies |-> << >>],
     [fetch |-> "ok",
      strategies |-> Strategies(PageWithImage("Title", "Full text",
                                              "http://x.com/top.jpg"),
                                StrategyFailed, StrategyFailed)],
     [fetch |-> "ok",
      strategies |-> Strategies(StrategyFailed, StrategyFailed,
                                PageWithImage("", "Full text",
                                              "http://x.com/body.jpg"))]}

\* the update as it would be were it an upsert: where no row has the id, one
\* is made of the fields sent
update_article_upserting(rows, id, data, image_read, t) ==
    IF \E row \in rows : row.id = id
    THEN {IF row.id = id
          THEN [row EXCEPT !.content = data.content,
                           !.word_count = data.wordCount,
                           !.reading_time = data.readingTime,
                           !.content_extracted_at = t,
                           !.image_url = IF image_read \in {PyNone, ""}
                                            /\ data.images # << >>
                                         THEN data.images[1] ELSE @]
          ELSE row : row \in rows}
    ELSE rows \cup {[id |-> id, title |-> "", url |-> "",
                     content |-> data.content, content_hash |-> "",
                     image_url |-> IF data.images # << >>
                                   THEN data.images[1] ELSE PyNone,
                     collected_at |-> NULL, analysis_status |-> "not_analyzed",
                     word_count |-> data.wordCount,
                     reading_time |-> data.readingTime,
                     content_extracted_at |-> t]}

\* the UPDATE ... WHERE id = article_id the call sends for the data extracted:
\* image_url is part of it only when the article as read had none and the
\* page has an image
update_article(rows, id, data, image_read, t) ==
    {IF row.id = id
     THEN [row EXCEPT !.content = data.content,
                      !.word_count = data.wordCount,
                      !.reading_time = data.readingTime,
                      !.content_extracted_at = t,
                      !.image_url = IF image_read \in {PyNone, ""}
                                       /\ data.images # << >>
                                    THEN data.images[1] ELSE @]
     ELSE row : row \in rows}

\* what the call hands back, an Optional[Dict]: << >> is None, <<data>> the
\* data extracted.  affected is history: the rows its update matched.
Returned(id, res, rows) ==
    [fn |-> "extract_article_content", arg |-> id,
     out |-> IF res.status = "success" THEN <<res>> ELSE << >>,
     affected |-> IF res.status = "success"
                  THEN Cardinality({row \in rows : row.id = id}) ELSE 0]

\* no article has the id: the call returns None before it awaits anything
extract_missing(id) ==
    /\ cur = "none"
    /\ \A row \in store : row.id # id
    /\ call' = Returned(id, ExtractionError("NOT_FOUND"), store)
    /\ UNCHANGED <<now, store, is_running, scheduler, daily_runs, pc, loc, cur,
                   ext, web, ran>>

\* the article is read, then the call awaits extract_content
extract_read(id) ==
    /\ cur = "none"
    /\ ext.pc = "idle"
    /\ \E row \in store :
         /\ row.id = id
         /\ ext' = [pc |-> "extracting", id |-> id, url |-> row.url,
                    image_url |-> row.image_url]
    /\ UNCHANGED <<now, store, is_running, scheduler, daily_runs, pc, loc, cur,
                   web, ran, call>>

\* extract_content has answered; on success the row with that id is updated
extract_update(answers) ==
    /\ cur = "none"
    /\ ext.pc = "extracting"
    /\ \E answer \in answers :
         LET res == extract_content(answer.fetch, answer.strategies)
         IN /\ store' = IF res.status = "success"
                        THEN update_article(store, ext.id, res, ext.image_url,
                                            now)
                        ELSE store
            /\ call' = Returned(ext.id, res, store)
    /\ ext' = NoExtraction
    /\ UNCHANGED <<now, is_running, scheduler, daily_runs, pc, loc, cur, web,
                   ran>>

\* a second request for the article a call is working on: it reads the
\* article, extracts and updates while the first call still awaits its page
extract_article_content_concurrent(answers) ==
    /\ cur = "none"
    /\ ext.pc = "extracting"
    /\ \E row \in store, answer \in answers :
         LET res == extract_content(answer.fetch, answer.strategies)
         IN /\ row.id = ext.id
            /\ store' = IF res.status = "success"
                        THEN update_article(store, row.id, res, row.image_url,
                                            now)
                        ELSE store
            /\ call' = Returned(row.id, res, store)
    /\ UNCHANGED <<now, is_running, scheduler, daily_runs, pc, loc, cur, ext,
                   web, ran>>

\* POST /rss/articles/{id}/analyze as it would be if the database service
\* had the query methods the endpoint calls: the row is read and its
\* analysis_status is set to pending whatever it was
analyze_rss_article_updating(id) ==
    /\ cur = "none"
    /\ IF \E row \in store : row.id = id
       THEN /\ store' = {IF row.id = id
                         THEN [row EXCEPT !.analysis_status = "pending"]
                         ELSE row : row \in store}
            /\ call' = [fn |-> "analyze_rss_article", arg |-> id, out |-> 200]
       ELSE /\ store' = store
            /\ call' = [fn |-> "analyze_rss_article", arg |-> id, out |-> 404]
    /\ UNCHANGED <<now, is_running, scheduler, daily_runs, pc, loc, cur, ext,
                   web, ran>>

\* POST /rss/articles/{id}/analyze: DatabaseService has no fetch_one, so the
\* first statement that touches the table raises AttributeError, the handler
\* answers 500, and the UPDATE further down is never reached
analyze_rss_article(id) ==
    /\ cur = "none"
    /\ call' = [fn |-> "analyze_rss_article", arg |-> id, out |-> 500]
    /\ UNCHANGED <<now, store, is_running, scheduler, daily_runs, pc, loc, cur,
                   ext, web, ran>>

(***************************************************************************)
(* SchedulerService                                                        *)
(***************************************************************************)
\* start() as it would be without its is_running check: every call makes a
\* scheduler, registers the jobs and spawns a start-up collection
start_respawning ==
    /\ cur = "none"
    /\ pc["startup"] = "idle"
    /\ scheduler' = TRUE
    /\ is_running' = TRUE
    /\ StartRun("startup")
    /\ call' = [fn |-> "start", out |-> "started"]
    /\ UNCHANGED <<now, store, daily_runs, cur, ext, web, ran>>

\* start(): while running it returns at once; otherwise both jobs are
\* registered, the scheduler is started and the start-up collection spawned
start ==
    /\ cur = "none"
    /\ IF is_running
       THEN /\ call' = [fn |-> "start", out |-> "already_running"]
            /\ UNCHANGED <<scheduler, is_running, pc, loc>>
       ELSE /\ pc["startup"] = "idle"
            /\ scheduler' = TRUE
            /\ is_running' = TRUE
            /\ StartRun("startup")
            /\ call' = [fn |-> "start", out |-> "started"]
    /\ UNCHANGED <<now, store, daily_runs, cur, ext, web, ran>>

\* start() when add_job or AsyncIOScheduler.start() raises: the scheduler
\* object stays, is_running is not set, the exception is re-raised
start_fails ==
    /\ cur = "none"
    /\ ~is_running
    /\ scheduler' = TRUE
    /\ call' = [fn |-> "start", out |-> "raised"]
    /\ UNCHANGED <<now, store, is_running, daily_runs, pc, loc, cur, ext, web,
                   ran>>

\* stop(): a no-op unless running; shutdown(wait=True) either goes through
\* or raises, and the exception is logged with is_running left as it was
stop ==
    /\ cur = "none"
    /\ IF ~is_running \/ ~scheduler
       THEN /\ call' = [fn |-> "stop", out |-> "not_running"]
            /\ UNCHANGED is_running
       ELSE \/ /\ is_running' = FALSE
               /\ call' = [fn |-> "stop", out |-> "stopped"]
            \/ /\ call' = [fn |-> "stop", out |-> "failed"]
               /\ UNCHANGED is_running
    /\ UNCHANGED <<now, store, scheduler, daily_runs, pc, loc, cur, ext, web,
                   ran>>

\* get_job_status()["status"]
get_job_status(sched, running) ==
    IF ~sched THEN "not_started"
    ELSE IF running THEN "running" ELSE "stopped"

\* the interval trigger fires; max_instances=1 makes the scheduler skip the
\* firing while the job's previous instance has not returned
collect_rss_feeds ==
    /\ cur = "none"
    /\ is_running
    /\ pc["interval"] = "idle"
    /\ StartRun("interval")
    /\ UNCHANGED <<now, store, is_running, scheduler, daily_runs, cur, ext, web, ran, call>>

\* the daily job as it would be if it called the sweep
daily_cleanup_sweeping ==
    /\ cur = "none"
    /\ is_running
    /\ daily_runs < MaxDaily
    /\ daily_runs' = daily_runs + 1
    /\ store' = cleanup_old_articles(store, now)
    /\ UNCHANGED <<now, is_running, scheduler, pc, loc, cur, ext, web, ran, call>>

\* the cron trigger fires _daily_cleanup, which only logs
daily_cleanup ==
    /\ cur = "none"
    /\ is_running
    /\ daily_runs < MaxDaily
    /\ daily_runs' = daily_runs + 1
    /\ UNCHANGED <<now, store, is_running, scheduler, pc, loc, cur, ext, web, ran, call>>

\* feeds that list one article or fail
SchedFeed ==
    [s \in Sources |->
        {[kind |-> "exception", entries |-> << >>],
         [kind |-> "ok", entries |-> <<IF s = 1 THEN eA ELSE eC>>]}]

(***************************************************************************)
(* Spec: ingestion on request, the store and the sweep, with every fetch   *)
(* free to bring back any feed document and every store call free to fail. *)
(***************************************************************************)
AnyFeed == [s \in Sources |-> FetchOutcomes]

Next ==
    \/ trigger_rss_collection
    \/ \E r \in Runs : gather(r, AnyFeed)
    \/ \E r \in Runs : store_articles(r, StoreFaults)
    \/ \E r \in Runs : leave_session(r)
    \/ \E r \in Runs : cleanup_and_return(r, BOOLEAN)
    \/ \E r \in Runs : finish(r)
    \/ Tick

Spec == Init /\ [][Next]_vars

\* SpecLive: ingestion on request over feeds that list one article or fail,
\* every store call and the sweep free to fail, with every step of a run
\* taken once it can be: a fetch ends (session.get has a timeout of 30 s), a
\* store call returns, and the event loop resumes a coroutine that is ready
NextLive ==
    \/ trigger_rss_collection
    \/ \E r \in Runs : gather(r, SchedFeed)
    \/ \E r \in Runs : store_articles(r, StoreFaults)
    \/ \E r \in Runs : leave_session(r)
    \/ \E r \in Runs : cleanup_and_return(r, BOOLEAN)
    \/ \E r \in Runs : finish(r)
    \/ Tick

Fairness ==
    \A r \in Runs :
        /\ WF_vars(gather(r, SchedFeed))
        /\ WF_vars(store_articles(r, StoreFaults))
        /\ WF_vars(leave_session(r))
        /\ WF_vars(cleanup_and_return(r, BOOLEAN))
        /\ WF_vars(finish(r))

SpecLive == Init /\ [][NextLive]_vars /\ Fairness

(***************************************************************************)
(* SpecExtract: on-demand extraction next to ingestion and the sweep, over *)
(* feeds that list one article or fail.                                    *)
(***************************************************************************)
NextExtract ==
    \/ trigger_rss_collection
    \/ \E r \in Runs : gather(r, SchedFeed)
    \/ \E r \in Runs : store_articles(r, {"none"})
    \/ \E r \in Runs : leave_session(r)
    \/ \E r \in Runs : cleanup_and_return(r, {FALSE})
    \/ \E r \in Runs : finish(r)
    \/ \E id \in 1..MaxId : extract_read(id)
    \/ extract_update(TextAnswers)
    \/ \E id \in 1..MaxId : analyze_rss_article(id)
    \/ Tick

SpecExtract == Init /\ [][NextExtract]_vars

(***************************************************************************)
(* SpecFrame: on-demand extraction, two requests for one article among     *)
(* them, next to manual ingestion and its sweep.                           *)
(***************************************************************************)
NextFrame ==
    \/ trigger_rss_collection
    \/ \E r \in Runs : gather(r, SchedFeed)
    \/ \E r \in Runs : store_articles(r, {"none"})
    \/ \E r \in Runs : leave_session(r)
    \/ \E r \in Runs : cleanup_and_return(r, {FALSE})
    \/ \E r \in Runs : finish(r)
    \/ \E id \in 1..MaxId : extract_missing(id)
    \/ \E id \in 1..MaxId : extract_read(id)
    \/ extract_update(ImageAnswers)
    \/ extract_article_content_concurrent(ImageAnswers)
    \/ Tick

SpecFrame == Init /\ [][NextFrame]_vars

(***************************************************************************)
(* SpecSched: the scheduler with its two jobs, the start-up run and manual *)
(* triggers, over feeds that list one article or fail.                     *)
(***************************************************************************)
NextSched ==
    \/ start
    \/ start_fails
    \/ stop
    \/ collect_rss_feeds
    \/ daily_cleanup
    \/ trigger_rss_collection
    \/ \E r \in Runs : gather(r, SchedFeed)
    \/ \E r \in Runs : store_articles(r, {"none"})
    \/ \E r \in Runs : leave_session(r)
    \/ \E r \in Runs : cleanup_and_return(r, {FALSE})
    \/ \E r \in Runs : finish(r)
    \/ Tick

SpecSched == Init /\ [][NextSched]_vars

(***************************************************************************)
(* SpecIdem: runs one after the other against feed documents that never    *)
(* change, every fetch and every store call succeeding.                    *)
(***************************************************************************)
InitIdem ==
    /\ InitBase
    /\ web \in [Sources -> FeedSnapshots]

FixedFeed == [s \in Sources |-> {[kind |-> "ok", entries |-> web[s]]}]

NextIdem ==
    \/ trigger_rss_collection
    \/ \E r \in Runs : gather(r, FixedFeed)
    \/ \E r \in Runs : store_articles(r, {"none"})
    \/ \E r \in Runs : leave_session(r)
    \/ \E r \in Runs : cleanup_and_return(r, {FALSE})
    \/ \E r \in Runs : finish(r)
    \/ Tick

SpecIdem == InitIdem /\ [][NextIdem]_vars

(***************************************************************************)
(* SpecCalls: one request for a reading time, for an extraction or for the *)
(* language of an entry, and its answer.                                   *)
(***************************************************************************)
InitCalls ==
    /\ now = 0
    /\ store = {ManualArticle}
    /\ is_running = FALSE
    /\ scheduler = FALSE
    /\ daily_runs = 0
    /\ pc = [r \in Runs |-> "idle"]
    /\ loc = [r \in Runs |-> IdleLoc]
    /\ cur = "none"
    /\ ext = NoExtraction
    /\ ran = FALSE
    /\ web = [s \in Sources |-> << >>]
    /\ call \in Requests

NextCalls ==
    \/ reading_time_call
    \/ extract_content_endpoint
    \/ determine_language_call
    \/ detect_language_call
    \/ main_image_call
    \/ beautifulsoup_call

SpecCalls == InitCalls /\ [][NextCalls]_vars

(***************************************************************************)
(* Properties                                                              *)
(***************************************************************************)
\* a pass of the store loop of run r
StorePass(r) == pc[r] = "storing" /\ loc'[r].idx = loc[r].idx + 1

\* the candidate that pass is about
Candidate(r) == loc[r].all_articles[loc[r].idx]

\* the candidates of seq that source s delivered
RECURSIVE FromSource(_, _)
FromSource(seq, s) ==
    IF seq = << >> THEN << >>
    ELSE (IF Head(seq).source_name = s THEN <<Head(seq)>> ELSE << >>)
         \o FromSource(Tail(seq), s)

RECURSIVE SumLen(_, _)
SumLen(results, n) ==
    IF n = 0 THEN 0 ELSE SumLen(results, n - 1) + Len(results[n].value)

\* C1: after any sequence of ingestion runs and on-demand extractions, every
\* persisted article has a non-empty content string.
ContentNeverEmpty == \A row \in store : row.content # ""

\* C2: a run of collect_all_feeds that directly follows another run against
\* the same feed contents (every store call succeeding) reports
\* new_articles_stored = 0.
SecondRunStoresNothing ==
    \A r \in Runs :
        (ran /\ pc[r] = "done") => loc[r].stats.new_articles_stored = 0

\* C3: a pass of the store loop inserts a row only if, at its check, no
\* stored article has the candidate's content_hash and none has its url, and
\* the row it inserts is the candidate's; otherwise the store and
\* new_articles_stored stay as they are; no two rows ever share a
\* content_hash or a url.
InsertOnlyIfAbsent ==
    /\ [][\A r \in Runs : StorePass(r) =>
            LET a == Candidate(r)
                absent == \A row \in store :
                              /\ row.content_hash # a.content_hash
                              /\ row.url # a.url
                counted == loc'[r].new_articles_stored
                               - loc[r].new_articles_stored
            IN /\ store \subseteq store'
               /\ store' # store =>
                    /\ absent
                    /\ counted = 1
                    /\ \E row \in store' \ store :
                         /\ store' = store \cup {row}
                         /\ row.content_hash = a.content_hash
                         /\ row.url = a.url
               /\ ~absent => store' = store /\ counted = 0
               /\ store' = store => counted = 0]_vars
    /\ [](\A x, y \in store :
            x # y => x.content_hash # y.content_hash /\ x.url # y.url)

\* a candidate was skipped because a row carries its content_hash under
\* another url
SkippedOnHashMatch ==
    \E r \in Runs :
        /\ pc[r] = "storing"
        /\ loc[r].idx = 2
        /\ ~loc[r].store_failed
        /\ loc[r].new_articles_stored = 0
        /\ \E row \in store :
             /\ row.content_hash = loc[r].all_articles[1].content_hash
             /\ row.url # loc[r].all_articles[1].url

\* C4: at most one run of collect_all_feeds is in flight at any time.
AtMostOneRunInFlight == Cardinality({r \in Runs : InFlight(r)}) <= 1

\* C5: whatever the other sources' fetches did, the articles parsed from a
\* source's feed all stand, in order, in the batch handed to the store loop,
\* the loop is left only after its last article, and the run ends with a
\* statistics object that counts them.
SiblingsReachStore ==
    \A r \in Runs :
        /\ pc[r] = "storing" =>
             /\ \A s \in Sources :
                  FromSource(loc[r].all_articles, s) = loc[r].results[s].value
             /\ loc[r].total_articles_found = SumLen(loc[r].results, NumSources)
             /\ Len(loc[r].all_articles) = loc[r].total_articles_found
        /\ pc[r] \in {"closing", "done"} =>
             loc[r].idx = loc[r].total_articles_found + 1
        /\ pc[r] = "done" =>
             /\ loc[r].stats # << >>
             /\ loc[r].stats.total_articles_found = loc[r].total_articles_found

\* a run ended in which one source failed and a sibling's article was stored
SiblingStoredDespiteFailure ==
    \E r \in Runs :
        /\ pc[r] = "done"
        /\ loc[r].failed # {}
        /\ loc[r].new_articles_stored >= 1

\* C6: every source whose fetch failed (transport exception or non-200
\* status) has an entry in the errors list of the run's statistics.
FailedFetchesReported ==
    \A r \in Runs :
        pc[r] = "done" =>
            \A s \in loc[r].failed :
                \E i \in DOMAIN loc[r].stats.errors : loc[r].stats.errors[i] = s

\* C7: a sweep whose delete goes through removes exactly the rows whose
\* collected_at is not NULL and earlier than now minus 30 days.
SweepDeletesExactlyExpired ==
    [][\A r \in Runs :
         (loc'[r].swept /\ ~loc[r].swept) =>
             /\ store' = {row \in store :
                            ~(/\ row.collected_at # NULL
                              /\ row.collected_at < now - RetentionDays)}
             /\ loc'[r].cleaned = Cardinality(store \ store')]_vars

\* a sweep deleted an article and kept one collected exactly 30 days ago and
\* the manual article
SweepAtTheHorizon ==
    \E r \in Runs :
        /\ pc[r] = "done"
        /\ loc[r].swept
        /\ loc[r].cleaned >= 1
        /\ \E row \in store : row.collected_at = now - RetentionDays
        /\ \E row \in store : row.collected_at = NULL

\* C8: each firing of the daily job leaves no feed-origin article past the
\* 30-day horizon in the store.
DailyJobSweeps ==
    [][daily_runs' # daily_runs =>
         \A row \in store' :
             ~(/\ row.collected_at # NULL
               /\ row.collected_at < now' - RetentionDays)]_vars

\* C8 as amended: a firing of the daily job leaves the store as it is; rows
\* leave the store only in the sweep that ends a run of collect_all_feeds.
DailyJobDeletesNothing ==
    [][/\ daily_runs' # daily_runs => store' = store
       /\ ~(store \subseteq store') =>
            \E r \in Runs : pc[r] = "closing" /\ pc'[r] = "done"]_vars

\* the daily job has fired and an article past the horizon is still stored
ExpiredAfterDailyJob ==
    /\ daily_runs >= 1
    /\ \E row \in store :
         row.collected_at # NULL /\ row.collected_at < now - RetentionDays

\* C9: a run invokes the sweep exactly once, after the store loop has gone
\* through every article, also when a fetch or a store call failed; the
\* statistics are returned also when the sweep fails.
SweepOncePerRun ==
    \A r \in Runs :
        /\ pc[r] \in {"fetching", "storing", "closing"} =>
             loc[r].sweeps = 0 /\ loc[r].stats = << >>
        /\ pc[r] = "done" =>
             /\ loc[r].sweeps = 1
             /\ loc[r].idx = loc[r].total_articles_found + 1
             /\ loc[r].stats # << >>
             /\ loc[r].stats.new_articles_stored = loc[r].new_articles_stored

\* a run with a failed fetch, a failed store call and a failed sweep returned
SweepAfterFailures ==
    \E r \in Runs :
        /\ pc[r] = "done"
        /\ loc[r].failed # {}
        /\ loc[r].store_failed
        /\ ~loc[r].swept
        /\ loc[r].sweeps = 1

\* C10: the pass of the store loop in which the existence check or the
\* insert first raises leaves the store and new_articles_stored as they are;
\* after any pass, failed or not, the loop goes on with the next article, so
\* that it is left only after the last one, and the run returns its
\* statistics.
StorageErrorSkipsOneArticle ==
    /\ [][\A r \in Runs :
            /\ (pc[r] = "storing" /\ loc'[r].store_failed /\ ~loc[r].store_failed)
                 => /\ store' = store
                    /\ loc'[r].new_articles_stored = loc[r].new_articles_stored
            /\ (pc[r] = "storing" /\ loc[r].idx <= Len(loc[r].all_articles))
                 => /\ pc'[r] = "storing"
                    /\ loc'[r].all_articles = loc[r].all_articles
                    /\ loc'[r].idx = loc[r].idx + 1]_vars
    /\ [](\A r \in Runs :
            (loc[r].store_failed /\ pc[r] \in {"closing", "done"}) =>
                loc[r].idx = loc[r].total_articles_found + 1)
    /\ [](\A r \in Runs :
            (loc[r].store_failed /\ pc[r] = "done") =>
                /\ loc[r].stats # << >>
                /\ loc[r].stats.new_articles_stored < loc[r].total_articles_found)

\* the first article of a batch met a storage error and is not stored, the
\* second was inserted
InsertedAfterStorageError ==
    \E r \in Runs :
        /\ pc[r] = "storing"
        /\ loc[r].idx = 3
        /\ loc[r].store_failed
        /\ loc[r].new_articles_stored = 1
        /\ \A row \in store :
             row.content_hash # loc[r].all_articles[1].content_hash
        /\ \E row \in store :
             /\ row.content_hash = loc[r].all_articles[2].content_hash
             /\ row.collected_at = now


\* position of a status on the way not_analyzed -> pending -> completed or
\* failed
StatusRank(st) ==
    CASE st = "not_analyzed" -> 0
      [] st = "pending" -> 1
      [] OTHER -> 2

\* C11: when a manually triggered run is over, whatever feeds failed in it,
\* the endpoint answers 200 "success" and the scheduler method returns
\* "success", both carrying the statistics of the run with its errors list
\* as collect_all_feeds built them.
ManualTriggerReturnsStats ==
    pc["manual"] = "done" =>
        LET stats == [feeds_processed |-> NumSources,
                      total_articles_found |-> loc["manual"].total_articles_found,
                      new_articles_stored |-> loc["manual"].new_articles_stored,
                      errors |-> loc["manual"].errors]
        IN /\ trigger_rss_collection_response("manual") =
                [status_code |-> 200, status |-> "success", data |-> stats]
           /\ scheduler_trigger_result("manual") =
                [status |-> "success", stats |-> stats]

\* a manual run in which every feed failed, a store call failed and the
\* sweep failed has answered with its statistics
ManualTriggerAfterFailures ==
    /\ pc["manual"] = "done"
    /\ loc["manual"].failed = Sources
    /\ ~loc["manual"].swept
    /\ trigger_rss_collection_response("manual").status = "success"

\* a manual run in which one feed failed and the other delivered has answered
ManualTriggerPartialFailure ==
    /\ pc["manual"] = "done"
    /\ loc["manual"].failed # {}
    /\ loc["manual"].failed # Sources
    /\ loc["manual"].new_articles_stored > 0
    /\ trigger_rss_collection_response("manual").data.new_articles_stored > 0

CollectedAtMarksFeedOrigin ==
    /\ [](\A row \in store :
             (row.collected_at = NULL) <=> (row.content_hash = ""))
    /\ [][\A new \in store' :
            \/ \E old \in store : /\ old.id = new.id
                                  /\ old.content_hash = new.content_hash
                                  /\ old.collected_at = new.collected_at
            \/ /\ \A old \in store : old.id # new.id
               /\ new.collected_at = now
               /\ new.collected_at # NULL]_vars

\* an ingested row had its content extracted and still carries collected_at
CollectedAtSurvivesExtraction ==
    \E row \in store :
        /\ row.content_hash # ""
        /\ row.collected_at # NULL
        /\ row.content # PlaceholderContent(row.title)

\* the request of kind f has been answered
Answered(f) == call.fn = f /\ call.out # Pending

\* the score of a strategy's result: the length of its content, 100 for a
\* title, 50 for an author, 50 for a publish date
Points(result) ==
    Len(result.content)
    + (IF result.title # "" THEN 100 ELSE 0)
    + (IF result.author # "" THEN 50 ELSE 0)
    + (IF result.publishDate # "" THEN 50 ELSE 0)

\* the strategy neither reported failure nor raised in the loop's body
Succeeded(st) == st.result.success /\ st.result.content # PyNone

\* C14: the reading time of w words is max(1, ceil(w / 225)).
ReadingTimeIsCeiling ==
    Answered("calculate_reading_time") =>
        LET ceiling == (call.arg + WordsPerMinute - 1) \div WordsPerMinute
        IN call.out.result = IF ceiling > 1 THEN ceiling ELSE 1

\* C15: a success carries the result of the succeeded strategy with the
\* highest score, the first in the order newspaper3k, readability,
\* beautifulsoup among those that share it, and names that strategy.
BestStrategyWins ==
    (Answered("extract_content") /\ call.out.result.status = "success") =>
        LET S == call.arg.strategies
            res == call.out.result
        IN \E i \in 1..3 :
             /\ Succeeded(S[i])
             /\ \A j \in 1..3 :
                  Succeeded(S[j]) => Points(S[j].result) <= Points(S[i].result)
             /\ \A j \in 1..(i - 1) :
                  Succeeded(S[j]) => Points(S[j].result) < Points(S[i].result)
             /\ res.extractionStrategy = S[i].name
             /\ res.content = S[i].result.content
             /\ res.author = S[i].result.author
             /\ res.publishDate = S[i].result.publishDate
             /\ res.title = IF S[i].result.title # ""
                            THEN S[i].result.title ELSE "Untitled"

\* newspaper3k and beautifulsoup tied for the highest score with different
\* texts and the answer is newspaper3k's
TieKeepsFirst ==
    /\ Answered("extract_content")
    /\ call.out.result.status = "success"
    /\ LET S == call.arg.strategies
       IN /\ Succeeded(S[1]) /\ Succeeded(S[3])
          /\ Points(S[1].result) = Points(S[3].result)
          /\ ~Succeeded(S[2]) \/ Points(S[2].result) < Points(S[1].result)
          /\ S[1].result.content # S[3].result.content
          /\ call.out.result.extractionStrategy = "newspaper3k"

\* C16: once the page is fetched, the answer is EXTRACTION_FAILED exactly
\* when no strategy succeeded or the best score is 0, and a success comes
\* from a strategy whose score is positive.
FailsIffNothingScores ==
    (Answered("extract_content") /\ call.out.fetched /\ call.arg.fetch = "ok") =>
        LET S == call.arg.strategies
            res == call.out.result
            scoring == {i \in 1..3 : Succeeded(S[i]) /\ Points(S[i].result) > 0}
        IN /\ (res.status = "error" /\ res.code = "EXTRACTION_FAILED")
               <=> scoring = {}
           /\ res.status = "success" =>
                \E i \in scoring : res.extractionStrategy = S[i].name
           /\ res.status \in {"success", "error"}

\* a strategy succeeded with nothing in its result and the answer is
\* EXTRACTION_FAILED
ZeroScoreFails ==
    /\ Answered("extract_content")
    /\ call.out.fetched
    /\ call.arg.fetch = "ok"
    /\ \E i \in 1..3 : /\ Succeeded(call.arg.strategies[i])
                        /\ Points(call.arg.strategies[i].result) = 0
    /\ call.out.result.status = "error"
    /\ call.out.result.code = "EXTRACTION_FAILED"

\* C17: a strategy that raises or reports failure does not keep the later
\* ones from being tried; when newspaper3k and readability fail and
\* beautifulsoup finds more than 200 characters, the answer is a success
\* named beautifulsoup with a non-empty content.
StrategiesFaultIsolated ==
    (Answered("extract_content") /\ call.out.fetched /\ call.arg.fetch = "ok") =>
        LET S == call.arg.strategies
            res == call.out.result
        IN /\ \A i \in 1..3 : \A j \in (i + 1)..3 :
                (~Succeeded(S[i]) /\ Succeeded(S[j])
                 /\ Points(S[j].result) > 0)
                => /\ res.status = "success"
                   /\ Len(res.content)
                      + (IF res.title # "Untitled" THEN 100 ELSE 0)
                      + (IF res.author # "" THEN 50 ELSE 0)
                      + (IF res.publishDate # "" THEN 50 ELSE 0)
                      >= Points(S[j].result)
           /\ (/\ ~Succeeded(S[1])
               /\ ~Succeeded(S[2])
               /\ Succeeded(S[3])
               /\ Len(S[3].result.content) > 200)
              => /\ res.status = "success"
                 /\ res.extractionStrategy = "beautifulsoup"
                 /\ res.content # ""

\* newspaper3k and readability failed, the DOM scan found 201 characters
OnlyDomScanYields ==
    /\ Answered("extract_content")
    /\ call.arg.fetch = "ok"
    /\ ~call.arg.strategies[1].result.success
    /\ ~call.arg.strategies[2].result.success
    /\ call.arg.strategies[3].result.success
    /\ call.arg.strategies[3].result.content = LongBody
    /\ call.out.result.status = "success"
    /\ call.out.result.extractionStrategy = "beautifulsoup"

\* C18: a URL whose scheme is not http or https or whose host is empty is
\* answered INVALID_URL without a fetch; otherwise a non-200 response gives
\* HTTP_ERROR, a timeout TIMEOUT, another transport failure FETCH_ERROR, and
\* the strategies decide only after a 200 response.
FailuresClassifiedInOrder ==
    Answered("extract_content") =>
        LET u == urlparse(call.arg.url)
            res == call.out.result
        IN IF u.raises \/ u.scheme \notin {"http", "https"} \/ u.hostname = ""
           THEN res.status = "error" /\ res.code = "INVALID_URL"
                /\ ~call.out.fetched
           ELSE /\ call.out.fetched
                /\ call.arg.fetch = "http_error" =>
                     res.status = "error" /\ res.code = "HTTP_ERROR"
                /\ call.arg.fetch = "timeout" =>
                     res.status = "error" /\ res.code = "TIMEOUT"
                /\ call.arg.fetch = "fetch_error" =>
                     res.status = "error" /\ res.code = "FETCH_ERROR"
                /\ call.arg.fetch = "ok" =>
                     \/ res.status = "success"
                     \/ res.status = "error" /\ res.code = "EXTRACTION_FAILED"

\* C19: the endpoint answers INVALID_URL with 400, HTTP_ERROR with 502,
\* TIMEOUT with 504, EXTRACTION_FAILED with 422, any other error with 500,
\* and a success with 200.
StatusCodesFixed ==
    Answered("extract_content") =>
        LET res == call.out.result
            code == call.out.status_code
        IN /\ res.status = "success" => code = 200
           /\ res.status # "success" =>
                code = CASE res.code = "INVALID_URL" -> 400
                         [] res.code = "HTTP_ERROR" -> 502
                         [] res.code = "TIMEOUT" -> 504
                         [] res.code = "EXTRACTION_FAILED" -> 422
                         [] OTHER -> 500

\* a request whose fetch timed out was answered 504
TimeoutAnswered504 ==
    /\ Answered("extract_content")
    /\ call.out.fetched
    /\ call.arg.fetch = "timeout"
    /\ call.out.status_code = 504

\* C20: the language is that of the entry's tag if it starts with ar, fr or
\* en, else that of a feed-level tag that does, else the one detected from
\* title and summary, else unknown; an entry tagged ar-TN is ar.
LanguageFirstMatch ==
    Answered("determine_article_language") =>
        LET a == call.arg
            Tagged(tag) == tag \in {"ar-TN", "FR-fr", "en-US"}
            Prefix(tag) == CASE tag = "ar-TN" -> "ar"
                             [] tag = "FR-fr" -> "fr"
                             [] OTHER -> "en"
            detected ==
                detect_language_from_content(a.title \o " " \o a.summary)
        IN /\ call.out.result =
                IF Tagged(a.entry_language) THEN Prefix(a.entry_language)
                ELSE IF Tagged(a.feed_language) THEN Prefix(a.feed_language)
                ELSE IF Tagged(a.feed_lang) THEN Prefix(a.feed_lang)
                ELSE detected
           /\ a.entry_language = "ar-TN" => call.out.result = "ar"

\* an entry tagged ar-TN in a feed tagged FR-fr with a French summary is ar
EntryTagOutranksFeedAndText ==
    /\ Answered("determine_article_language")
    /\ call.arg.entry_language = "ar-TN"
    /\ call.arg.feed_language = "FR-fr"
    /\ call.arg.summary = "Les dernieres nouvelles de Tunisie"
    /\ call.out.result = "ar"

\* C21: whatever the entry's tag, the feed's tags and the detector say, the
\* language given to a candidate, and written to its row, is ar, fr, en or
\* unknown.
LanguageInFixedSet ==
    Answered("determine_article_language") =>
        /\ call.out.result \in {"ar", "fr", "en", "unknown"}
        /\ stored_language(call.out.result) \in {"ar", "fr", "en", "unknown"}

\* an untagged entry in German was resolved
GermanTextResolved ==
    /\ Answered("determine_article_language")
    /\ call.arg.entry_language = ""
    /\ call.arg.feed_language = "de"
    /\ call.arg.feed_lang = ""
    /\ call.arg.summary = "Die neuesten Nachrichten aus Tunis"
    /\ call.out.result = "unknown"

\* C22: detection gives unknown for a text shorter than 20 characters once
\* cleaned and for a text the detector fails on; otherwise it gives the
\* detector's code mapped by ar->ar, fr->fr, en->en, it->fr, es->fr, any
\* other code -> unknown.
DetectionMapsThroughTable ==
    Answered("detect_language_from_content") =>
        LET clean == rss_clean_text(call.arg)
            raw == detect(clean)
        IN call.out.result =
             IF Len(clean) < 20 \/ raw = DetectFailed THEN "unknown"
             ELSE CASE raw = "ar" -> "ar"
                    [] raw = "fr" -> "fr"
                    [] raw = "en" -> "en"
                    [] raw = "it" -> "fr"
                    [] raw = "es" -> "fr"
                    [] OTHER -> "unknown"

\* a text of 26 characters that is 14 characters long once cleaned was
\* found unknown
ShortOnceCleaned ==
    /\ Answered("detect_language_from_content")
    /\ Len(call.arg) >= 20
    /\ Len(rss_clean_text(call.arg)) > 0
    /\ Len(rss_clean_text(call.arg)) < 20
    /\ call.out.result = "unknown"

\* the least index of a non-empty set of indices
FirstOf(indices) == CHOOSE i \in indices : \A j \in indices : i <= j

\* C23: the image of an entry is the first thumbnail's url, else
\* the url of the first media item whose type is an image type or whose url
\* has an image extension, else the first image enclosure's href, else the
\* first inline img src, else nothing.
ImageByStatedPriority ==
    Answered("extract_main_image_from_rss_entry") =>
        LET a == call.arg
            T == {i \in DOMAIN a.media_thumbnail :
                    a.media_thumbnail[i].url # PyNone}
            M == {i \in DOMAIN a.media_content :
                    \/ StartsWithImage(a.media_content[i].type)
                    \/ EndsWithImageExtension(a.media_content[i].url)}
            E == {i \in DOMAIN a.enclosures :
                    StartsWithImage(a.enclosures[i].type)
                    /\ a.enclosures[i].href # ""}
            D == DOMAIN a.description
        IN call.out.result =
             IF T # {} THEN a.media_thumbnail[FirstOf(T)].url
             ELSE IF M # {} THEN a.media_content[FirstOf(M)].url
             ELSE IF E # {} THEN a.enclosures[FirstOf(E)].href
             ELSE IF D # {} THEN a.description[FirstOf(D)]
             ELSE PyNone

\* C24: a run of collect_all_feeds that has started comes to its end with
\* its statistics, whatever its fetches and store calls do.
RunEventuallyReturns ==
    \A r \in Runs :
        (pc[r] = "fetching") ~> (pc[r] = "done" /\ loc[r].stats # << >>)

\* a run in which every fetch, a store call and the sweep failed returned
ReturnedAfterEveryFailure ==
    \E r \in Runs :
        /\ pc[r] = "done"
        /\ loc[r].stats # << >>
        /\ loc[r].failed # {}
        /\ loc[r].store_failed
        /\ ~loc[r].swept

\* C25: on a page with a body, the DOM scan's content is the text of the
\* first candidate longer than 200 characters, and the text of the body when
\* no candidate is longer than 200 characters.
FirstSubstantialElseBody ==
    (Answered("extract_with_beautifulsoup") /\ call.arg.body # PyNone) =>
        LET c == call.arg.candidates
            long == {i \in DOMAIN c : Len(c[i]) > 200}
        IN call.out.result = IF long # {} THEN c[FirstOf(long)]
                             ELSE call.arg.body

\* C26: however the interval job, the start-up run and manual triggers
\* interleave, no two rows that came from ingestion have the same url or the
\* same content_hash.
NoDuplicateIngested ==
    \A row1 \in store : \A row2 \in store :
        (/\ row1 # row2
         /\ row1.collected_at # NULL
         /\ row2.collected_at # NULL)
        => /\ row1.url # row2.url
           /\ row1.content_hash # row2.content_hash

\* two runs in flight at once found the same article; one inserted it, the
\* other skipped it
ConcurrentRunsOneRow ==
    \E r1 \in Runs : \E r2 \in Runs \ {r1} :
        /\ pc[r1] = "closing"
        /\ pc[r2] = "closing"
        /\ loc[r1].new_articles_stored = 1
        /\ loc[r2].total_articles_found > 0
        /\ loc[r2].new_articles_stored = 0
        /\ Cardinality({row \in store : row.collected_at = now}) = 1

\* a step in which a call of extract_article_content returns
ExtractionReturns ==
    \/ ext.pc = "extracting" /\ ext'.pc = "idle"
    \/ call' # call /\ call'.fn = "extract_article_content"

\* the fields of an article no extraction writes
SameButExtracted(old, new) ==
    /\ old.id = new.id
    /\ old.title = new.title
    /\ old.url = new.url
    /\ old.content_hash = new.content_hash
    /\ old.collected_at = new.collected_at
    /\ old.analysis_status = new.analysis_status

\* C27: a call of extract_article_content changes only the article it is
\* about: a call that returns None changes no stored field of any article;
\* a call that returns data changes only content, word_count, reading_time
\* and content_extracted_at of that article, and its image_url only where
\* the article had none; no other article changes, none appears or goes.
ExtractionChangesOnlyItsArticle ==
    [][ExtractionReturns =>
         /\ {row.id : row \in store'} = {row.id : row \in store}
         /\ \A row \in store : row.id # call'.arg => row \in store'
         /\ call'.out = << >> => store' = store
         /\ \A old \in store, new \in store' :
              old.id = call'.arg /\ new.id = call'.arg =>
                /\ SameButExtracted(old, new)
                /\ old.image_url # PyNone =>
                     new.image_url = old.image_url]_vars

\* C28: an extraction whose article the sweep deleted between its read and
\* its update brings the article not back: the update matches no row, the
\* store stays as it is and holds no article with that id.
SweptArticleStaysDeleted ==
    [][(/\ ext.pc = "extracting"
        /\ \A row \in store : row.id # ext.id
        /\ ext'.pc = "idle")
       => /\ call'.arg = ext.id
          /\ call'.affected = 0
          /\ store' = store
          /\ \A row \in store' : row.id # ext.id]_vars

\* an extraction returned data for an article that was gone by the time of
\* its update, and the article is still gone
ExtractedAfterSweep ==
    /\ call.fn = "extract_article_content"
    /\ call.out # << >>
    /\ call.affected = 0
    /\ \A row \in store : row.id # call.arg

\* a step in which a call of start() or stop() ends
LifecycleCall(f) == call' # call /\ call'.fn = f

\* C29: the scheduler is a two-state machine.  is_running turns true only in
\* a start that succeeds, which registers the jobs and launches the
\* start-up collection, and turns false only in a stop that succeeds; a
\* start while running and a stop while not running change nothing; a start
\* that raises leaves is_running false; get_job_status says not_started
\* until the first start, running exactly while is_running, and stopped
\* otherwise.
SchedulerIsTwoState ==
    /\ ~is_running /\ get_job_status(scheduler, is_running) = "not_started"
    /\ [][/\ (~is_running /\ is_running') =>
               /\ LifecycleCall("start") /\ call'.out = "started"
               /\ scheduler'
               /\ pc["startup"] # "fetching" /\ pc'["startup"] = "fetching"
          /\ (is_running /\ ~is_running') =>
               /\ LifecycleCall("stop") /\ call'.out = "stopped"
               /\ UNCHANGED <<scheduler, pc, loc, store>>
          /\ (LifecycleCall("start") /\ is_running) =>
               UNCHANGED <<is_running, scheduler, daily_runs, pc, loc, store>>
          /\ (LifecycleCall("stop") /\ ~is_running) =>
               UNCHANGED <<is_running, scheduler, daily_runs, pc, loc, store>>
          /\ (LifecycleCall("start") /\ call'.out = "raised") =>
               ~is_running'
          /\ (get_job_status(scheduler', is_running') = "running")
               <=> is_running'
          /\ (get_job_status(scheduler', is_running') = "not_started") =>
               /\ get_job_status(scheduler, is_running) = "not_started"
               /\ ~LifecycleCall("start")
          /\ (get_job_status(scheduler', is_running') = "stopped") =>
               ~is_running' /\ scheduler']_vars

\* a start found the scheduler running after its start-up collection had
\* returned: it is still running and no further collection was launched
StartedWhileRunning ==
    /\ call = [fn |-> "start", out |-> "already_running"]
    /\ is_running
    /\ get_job_status(scheduler, is_running) = "running"
    /\ pc["startup"] = "idle"
    /\ ran

\* C30: the statistics of a run are consistent with what the run did.  The
\* total found is the number of candidates the fetches that returned
\* delivered, the number stored grows by one exactly in the passes of the
\* store loop that add a row and so counts the rows the run inserted, it
\* never exceeds the total, and the object returned carries both numbers
\* and the number of registered sources.
StatisticsAreConsistent ==
    [][\A r \in Runs :
         /\ (pc[r] = "fetching" /\ pc'[r] = "storing") =>
              /\ loc'[r].total_articles_found
                   = SumLen(loc'[r].results, NumSources)
              /\ loc'[r].total_articles_found = Len(loc'[r].all_articles)
              /\ loc'[r].new_articles_stored = 0
         /\ StorePass(r) =>
              /\ store \subseteq store'
              /\ loc'[r].new_articles_stored - loc[r].new_articles_stored
                   = Cardinality(store' \ store)
              /\ loc'[r].new_articles_stored < loc'[r].idx
              /\ loc'[r].total_articles_found = loc[r].total_articles_found
         /\ (pc[r] = "storing" /\ pc'[r] = "closing") =>
              /\ loc'[r].new_articles_stored = loc[r].new_articles_stored
              /\ loc'[r].total_articles_found = loc[r].total_articles_found
         /\ (pc[r] = "closing" /\ pc'[r] = "done") =>
              LET stats == loc'[r].stats
              IN /\ stats.feeds_processed = Cardinality(Sources)
                 /\ stats.total_articles_found = loc[r].total_articles_found
                 /\ stats.new_articles_stored = loc[r].new_articles_stored
                 /\ 0 <= stats.new_articles_stored
                 /\ stats.new_articles_stored <= stats.total_articles_found
       ]_vars

\* a run returned having found a candidate from every source and stored one
\* of them, with no storage error on the way
StoredFewerThanFound ==
    \E r \in Runs :
        /\ pc[r] = "done"
        /\ loc[r].stats.total_articles_found = NumSources
        /\ loc[r].stats.new_articles_stored = 1
        /\ ~loc[r].store_failed
        /\ Cardinality(store) = 2

=============================================================================
